---------------------------- MODULE Spec2Model ----------------------------
(***************************************************************************)
(* A model of the roc service framework (package rocserv):                 *)
(*   - util/service/clientV2.go : the discovery watcher (ClientEtcdV2),    *)
(*     its watch loop, the reassembly of a snapshot, the ring rebuild and  *)
(*     the router (GetServAddr / GetServAddrWithServid);                   *)
(*   - util/service/server.go   : the server orchestrator (Server.Init),   *)
(*     the master/slave lock and the signal loop.                          *)
(* The coordination store (etcd), the consistent-hash library and the      *)
(* registry publisher ServBaseV2 are not part of these two files: the      *)
(* store and the library are modelled as the environment, the publisher's  *)
(* operations from their description in spec.md.                           *)
(*                                                                         *)
(* The specifications share the variables: Spec (store, Client, a caller   *)
(* of the router), WatchSpec (store, Client, store errors and restarts of  *)
(* the watch loop), WatchFairSpec (the watch loop under fair scheduling),  *)
(* ReassemblySpec (store writes with a stray directory, the watch loop),   *)
(* PairSpec (two Clients that probe, parse, rebuild and route on related   *)
(* subtrees), SrvSpec (one server process through Server.Init and          *)
(* awaitSignal) and MsSpec (two processes in master/slave mode).           *)
(***************************************************************************)
EXTENDS Integers, Sequences, FiniteSets, TLC

VARIABLES
    \* ---- coordination store: the service subtree the Client watches
    store,        \* [index, nodes]: etcd index and the children of the service dir
    pub,          \* per slot, the publisher's in-memory state: [registered, servs, disable]
    disabledAt,   \* ghost: per slot, the index at which disable=true was published (0: never)
    \* ---- ClientEtcdV2
    distLoc,      \* m.distLoc
    muServlist,   \* m.muServlist: "free", "watch" or "router"
    servHash,     \* m.servHash: [nil, index, elts]; index is a ghost tag (r.Index it was built from)
    servCopy,     \* m.servCopy: [index, copies]
    \* ---- watch(): the supervisor goroutine
    chg,          \* the supervisor's channel (NoChan: nil)
    supPc,        \* "top", "recv", "parse", "uplock", "sethash", "setcopy"
    supR,         \* the response received from chg
    upLocal,      \* upServlist's locals: [shash, scopy]
    backoff,      \* stime.BackOffCtrl level (0 after Reset)
    \* ---- startWatch(): producer tasks
    nextTask,     \* number of startWatch goroutines started so far
    taskPc,       \* per task: "none", "get", "send", "watch", "done"
    taskCh,       \* per task: the channel it was given
    taskR,        \* per task: the last GET response
    closedCh,     \* channels that have been closed
    chanPanic,    \* a send on, or a close of, a closed channel happened
    errCount,     \* store errors injected so far
    nilWatcher,   \* Watcher() has returned nil
    \* ---- router call in progress / last result
    rt,           \* [pc, op, proc, key, sid, ringIdx, mapIdx, ret]; pc = "ret": about to return ret
    \* ---- server processes (SrvSpec)
    srv,          \* per process: the state of Server.Init (see SrvStart)
    lockHolder,   \* holder of the "<serv>-master-slave" lock (0: free)
    csKeys,       \* keys the processes hold in the coordination store: <<process, kind>>
    sigBudget,    \* signals the environment may still raise
    \* ---- two Clients, each taking one snapshot through probe, parse, rebuild, route
    pair          \* [rel, cl]: see PairStart (PairSpec)

clientVars == <<store, pub, disabledAt, distLoc, muServlist, servHash, servCopy, chg, supPc,
                supR, upLocal, backoff, nextTask, taskPc, taskCh, taskR, closedCh,
                chanPanic, errCount, nilWatcher, rt>>
serverVars == <<srv, lockHolder, csKeys, sigBudget>>
vars == <<clientVars, serverVars, pair>>

-----------------------------------------------------------------------------
(* Bounds of the model *)
MaxSlot == 2      \* instance slots 0 .. MaxSlot-1
MaxRev == 2       \* store writes after the initial state
MaxErr == 1       \* injected faults: GET error, watch error, nil watcher
MaxTasks == 3     \* startWatch goroutines that may be started
MaxBackoff == 2   \* cap of the modelled backoff level
MaxSig == 3       \* signals raised by the environment

(* Program constants *)
DefaultWeight == 100
MODEL_SERVER == 0
MODEL_MASTERSLAVE == 1

SlotIds == 0 .. (MaxSlot - 1)
TaskIds == 1 .. MaxTasks
NoChan == 0

-----------------------------------------------------------------------------
(* strconv / fmt: decimal conversions over character sequences *)

Digits == <<"0", "1", "2", "3", "4", "5", "6", "7", "8", "9">>

DigitVal(c) == (CHOOSE i \in 1..10 : Digits[i] = c) - 1

IsDigit(c) == \E i \in 1..10 : Digits[i] = c

RECURSIVE Itoa(_)
Itoa(n) == IF n < 10 THEN <<Digits[n + 1]>>
           ELSE Itoa(n \div 10) \o <<Digits[(n % 10) + 1]>>

RECURSIVE DigitsVal(_, _)
DigitsVal(s, acc) == IF s = <<>> THEN acc
                     ELSE DigitsVal(Tail(s), acc * 10 + DigitVal(Head(s)))

\* strconv.Atoi: [err, val]; an optional sign, then one or more digits
Atoi(s) ==
    LET body == IF s # <<>> /\ Head(s) \in {"-", "+"} THEN Tail(s) ELSE s
        neg == s # <<>> /\ Head(s) = "-"
    IN IF body = <<>> \/ \E i \in 1..Len(body) : ~IsDigit(body[i])
       THEN [err |-> TRUE, val |-> 0]
       ELSE [err |-> FALSE,
             val |-> IF neg THEN 0 - DigitsVal(body, 0) ELSE DigitsVal(body, 0)]

\* strings.Index(s, "-"): 0-based, -1 when absent
IndexDash(s) == IF \E i \in 1..Len(s) : s[i] = "-"
                THEN (CHOOSE i \in 1..Len(s) : s[i] = "-" /\ \A j \in 1..(i-1) : s[j] # "-") - 1
                ELSE -1

\* fmt.Sprintf("%d-%d", sid, i)
Label(sid, i) ==
    (IF sid < 0 THEN <<"-">> \o Itoa(0 - sid) ELSE Itoa(sid)) \o <<"-">> \o Itoa(i)


-----------------------------------------------------------------------------
(* Data model: what the store holds and what the Client decodes from it *)

ProcNames == {"api"}             \* processor names a server registers
QueryProcs == {"api", "rpc"}     \* processor names a caller asks for
Keys == {<<"k">>, <<"a", "x">>}  \* routing keys

\* ServInfo, and the nil *ServInfo
ServInfoOf(s, p) == [type |-> "http", addr |-> <<s, p>>]
NilInfo == [type |-> "nil", addr |-> <<-1, "">>]

EmptyServs == [p \in {} |-> NilInfo]
FullServs(s) == [p \in ProcNames |-> ServInfoOf(s, p)]

\* the JSON text of a reg / manual key, by what a decoder makes of it
NoReg == [kind |-> "none", servs |-> EmptyServs, disable |-> FALSE]
RegJson(servs, disable) == [kind |-> "ok", servs |-> servs, disable |-> disable]
NoManual == [kind |-> "none", weight |-> 0, disable |-> FALSE]
ManualJson(w, d) == [kind |-> "ctrl", weight |-> w, disable |-> d]
\* texts json.Unmarshal rejects: RegBad and ManualBad are no JSON at all (syntax
\* error, nothing is decoded); RegPartial is JSON with a field of the wrong
\* type next to a well-formed "servs" (the error is returned after the rest has
\* been decoded)
RegBad == [kind |-> "bad", servs |-> EmptyServs, disable |-> FALSE]
RegPartial(servs) == [kind |-> "partial", servs |-> servs, disable |-> FALSE]
ManualBad == [kind |-> "bad", weight |-> 0, disable |-> FALSE]
\* the value of a slot key in the v1 layout: the raw servs mapping
NoValue == [kind |-> "none", servs |-> EmptyServs]
ServsJson(servs) == [kind |-> "servs", servs |-> servs]
BadValue == [kind |-> "bad", servs |-> EmptyServs]

\* one child of the service directory
AbsentNode == [present |-> FALSE, dir |-> FALSE, reg |-> NoReg, manual |-> NoManual]
SlotNode(reg, manual) == [present |-> TRUE, dir |-> TRUE, reg |-> reg, manual |-> manual]
PlainKey == [present |-> TRUE, dir |-> FALSE, reg |-> NoReg, manual |-> NoManual]
\* one child of the service directory in the v1 layout: a key, no directory
V1Absent == [present |-> FALSE, dir |-> FALSE, value |-> NoValue]
V1Node(value) == [present |-> TRUE, dir |-> FALSE, value |-> value]

SlotName(s) == Itoa(s)
StrayName == <<"x">>
ChildNames == {SlotName(s) : s \in SlotIds} \cup {StrayName}

\* json.Unmarshal([]byte(is.reg), &regd): the error is only logged; a syntax
\* error leaves the zero value, a type error leaves what could be decoded
DecodeReg(j) == IF j.kind \in {"ok", "partial"} THEN j.servs ELSE EmptyServs

\* json.Unmarshal([]byte(s), &servs) in parseResponseV1: nil map on error
DecodeServsNone(j) == EmptyServs
DecodeServs(j) == IF j.kind = "servs" THEN j.servs ELSE EmptyServs

\* json.Unmarshal([]byte(is.manual), &manual)
DecodeManual(j) ==
    IF j.kind = "ctrl"
    THEN [isNil |-> FALSE, hasCtrl |-> TRUE, weight |-> j.weight, disable |-> j.disable]
    ELSE [isNil |-> FALSE, hasCtrl |-> FALSE, weight |-> 0, disable |-> FALSE]

NilManual == [isNil |-> TRUE, hasCtrl |-> FALSE, weight |-> 0, disable |-> FALSE]

-----------------------------------------------------------------------------
(* parseResponse / parseResponseV2 *)

Children(r) == {n \in DOMAIN r.nodes : r.nodes[n].present}

\* the ids collected by the first loop of parseResponseV2
ParsedIds(r) ==
    {Atoi(n).val : n \in {c \in Children(r) : ~Atoi(c).err /\ Atoi(c).val >= 0}}

\* idServ[i]: the child whose name parses to i
ChildOfId(r, i) == CHOOSE n \in Children(r) : ~Atoi(n).err /\ Atoi(n).val = i

\* parseResponseV2: [apply, scopy]; a child that is no directory makes it return
\* before upServlist is called
HasPlainChildIgnored(r) == FALSE
HasPlainChild(r) == \E n \in Children(r) : ~r.nodes[n].dir

parseResponseV2(r) ==
    IF HasPlainChild(r)
    THEN [apply |-> FALSE, scopy |-> <<>>]
    ELSE [apply |-> TRUE,
          scopy |-> [i \in ParsedIds(r) |->
                       [servId |-> i,
                        reg |-> [isNil |-> FALSE,
                                 servs |-> DecodeReg(r.nodes[ChildOfId(r, i)].reg)],
                        manual |-> DecodeManual(r.nodes[ChildOfId(r, i)].manual)]]]

\* parseResponseV1: every child whose name is a servId is a slot, its value the
\* servs mapping; manual stays nil
parseResponseV1(r) ==
    [apply |-> TRUE,
     scopy |-> [i \in ParsedIds(r) |->
                  [servId |-> i,
                   reg |-> [isNil |-> FALSE,
                            servs |-> DecodeServs(r.nodes[ChildOfId(r, i)].value)],
                   manual |-> NilManual]]]

\* parseResponse: dispatch on distLoc
parseResponse(loc, r) ==
    IF ~r.dir THEN [apply |-> FALSE, scopy |-> <<>>]
    ELSE IF loc = "v1" THEN parseResponseV1(r)
    ELSE IF loc = "v2" THEN parseResponseV2(r)
    ELSE [apply |-> FALSE, scopy |-> <<>>]

-----------------------------------------------------------------------------
(* upServlist: the ring rebuild *)

\* the instance is dropped: reg nil or reg.Servs empty
SkipCopyRegOnly(c) == c.reg.isNil
SkipCopy(c) == c.reg.isNil \/ Cardinality(DOMAIN c.reg.servs) = 0

\* disable, as upServlist reads it from manual.Ctrl
UpDisableIgnored(c) == FALSE
UpDisable(c) == ~c.manual.isNil /\ c.manual.hasCtrl /\ c.manual.disable

CtrlWeightNoDefault(c) ==
    IF ~c.manual.isNil /\ c.manual.hasCtrl THEN c.manual.weight ELSE 0
CtrlWeight(c) ==
    LET w == IF ~c.manual.isNil /\ c.manual.hasCtrl THEN c.manual.weight ELSE 0
    IN IF w = 0 THEN DefaultWeight ELSE w

\* slist, as the set of its labels
RingLabels(scopy) ==
    UNION {{Label(sid, i) : i \in 0 .. (CtrlWeight(scopy[sid]) - 1)} :
              sid \in {x \in DOMAIN scopy : ~SkipCopy(scopy[x]) /\ ~UpDisable(scopy[x])}}

-----------------------------------------------------------------------------
(* consistent.Consistent: NewWithElts and Get, a deterministic hash ring *)

CharSet == Digits \o <<"-", "a", "k", "x">>
CharCode(c) == CHOOSE i \in 1..Len(CharSet) : CharSet[i] = c

RECURSIVE HashSeq(_, _)
HashSeq(s, h) == IF s = <<>> THEN h
                 ELSE HashSeq(Tail(s), (h * 31 + CharCode(Head(s))) % 61)

\* Get(key): [err, elt]; the member clockwise-nearest to the key's hash
RingGet(elts, key) ==
    IF elts = {} THEN [err |-> TRUE, elt |-> <<>>]
    ELSE LET hk == HashSeq(key, 7)
             hs == {<<HashSeq(l, 7), l>> : l \in elts}
             ahead == {x \in hs : x[1] >= hk}
             pool == IF ahead = {} THEN hs ELSE ahead
             hv == {x[1] : x \in pool}
             m == CHOOSE h \in hv : \A g \in hv : h <= g
         IN [err |-> FALSE, elt |-> (CHOOSE x \in pool : x[1] = m)[2]]

-----------------------------------------------------------------------------
(* Router *)

\* getServAddrWithServid
getServAddrWithServid(copies, servid, processor) ==
    IF servid \in DOMAIN copies /\ ~copies[servid].reg.isNil
    THEN IF ~copies[servid].manual.isNil /\ copies[servid].manual.hasCtrl
            /\ copies[servid].manual.disable
         THEN NilInfo
         ELSE IF processor \in DOMAIN copies[servid].reg.servs
              THEN copies[servid].reg.servs[processor]
              ELSE NilInfo
    ELSE NilInfo

\* GetServAddr after the ring lookup: the servId of label s, [err, sid]
LabelSid(s) ==
    LET idx == IndexDash(s)
    IN IF idx = -1 THEN [err |-> TRUE, sid |-> 0]
       ELSE LET a == Atoi(SubSeq(s, 1, idx))
            IN IF a.err \/ a.val < 0 THEN [err |-> TRUE, sid |-> 0]
               ELSE [err |-> FALSE, sid |-> a.val]


-----------------------------------------------------------------------------
(* The coordination store and the registry publisher (ServBaseV2)          *)

InitNodes == [n \in ChildNames |->
                IF n = SlotName(0) THEN SlotNode(RegJson(FullServs(0), FALSE), NoManual)
                ELSE AbsentNode]

CanWrite == store.index < 1 + MaxRev

\* the store after one committed write of child n
Put(n, node) == [store EXCEPT !.index = store.index + 1, !.nodes[n] = node]

\* the reg key of slot s is set to j; the slot directory is created if needed
PutReg(s, j) ==
    LET old == store.nodes[SlotName(s)]
    IN Put(SlotName(s), SlotNode(j, IF old.present THEN old.manual ELSE NoManual))

\* ServBaseV2.RegisterService(infos): PUT {servs: infos} at <slot>/reg
RegisterService(s, infos) ==
    /\ CanWrite
    /\ ~pub[s].registered
    /\ store' = PutReg(s, RegJson(infos, pub[s].disable))
    /\ pub' = [pub EXCEPT ![s] = [registered |-> TRUE, servs |-> infos, disable |-> @.disable]]
    /\ UNCHANGED disabledAt

\* ServBaseV2.SetGroupAndDisable(group, disable): updates the in-memory field
\* and rewrites reg with the new metadata; manual is not touched
SetGroupAndDisable(s, d) ==
    /\ CanWrite
    /\ pub[s].registered
    /\ pub[s].disable # d
    /\ store' = PutReg(s, RegJson(pub[s].servs, d))
    /\ pub' = [pub EXCEPT ![s].disable = d]
    /\ disabledAt' = [disabledAt EXCEPT ![s] = IF d THEN store.index + 1 ELSE 0]

\* ServBaseV2.Stop() / lease expiry: the store deletes reg
StopInstance(s) ==
    /\ CanWrite
    /\ pub[s].registered
    /\ store' = PutReg(s, NoReg)
    /\ pub' = [pub EXCEPT ![s] = [registered |-> FALSE, servs |-> EmptyServs, disable |-> FALSE]]
    /\ disabledAt' = [disabledAt EXCEPT ![s] = 0]

ManualChoices == {ManualJson(0, TRUE), ManualJson(2, FALSE)}

\* an operator writes <slot>/manual
WriteManual(s, m) ==
    /\ CanWrite
    /\ store.nodes[SlotName(s)].present
    /\ store.nodes[SlotName(s)].manual # m
    /\ store' = Put(SlotName(s), [store.nodes[SlotName(s)] EXCEPT !.manual = m])
    /\ UNCHANGED <<pub, disabledAt>>

\* somebody writes a plain key (no directory) under the service directory
WriteStrayKey ==
    /\ CanWrite
    /\ ~store.nodes[StrayName].present
    /\ store' = Put(StrayName, PlainKey)
    /\ UNCHANGED <<pub, disabledAt>>

\* a directory that is no slot under the service directory, with a reg key in it
StrayDir == SlotNode(RegJson(FullServs(0), FALSE), NoManual)

\* somebody creates a directory whose name is no servId under the service
\* directory
WriteStrayDir ==
    /\ CanWrite
    /\ ~store.nodes[StrayName].present
    /\ store' = Put(StrayName, StrayDir)
    /\ UNCHANGED <<pub, disabledAt>>

clientOnly == <<distLoc, muServlist, servHash, servCopy, chg, supPc, supR, upLocal, backoff,
                nextTask, taskPc, taskCh, taskR, closedCh, chanPanic, errCount, nilWatcher, rt>>

StoreStep ==
    /\ \/ \E s \in SlotIds : RegisterService(s, FullServs(s))
       \/ \E s \in SlotIds : \E d \in BOOLEAN : SetGroupAndDisable(s, d)
       \/ \E s \in SlotIds : StopInstance(s)
       \/ \E s \in SlotIds : \E m \in ManualChoices : WriteManual(s, m)
       \/ WriteStrayKey
    /\ UNCHANGED clientOnly
    /\ UNCHANGED <<serverVars, pair>>

-----------------------------------------------------------------------------
(* startWatch: the producer goroutines *)

NoResp == [index |-> 0, dir |-> FALSE, nodes |-> [n \in ChildNames |-> AbsentNode]]

\* m.etcdClient.Get(path, Recursive): the subtree and the store's index
GetResp == [index |-> store.index, dir |-> TRUE, nodes |-> store.nodes]

\* close(chg): closing a closed channel panics
Close(c) ==
    IF c \in closedCh
    THEN chanPanic' = TRUE /\ UNCHANGED closedCh
    ELSE closedCh' = closedCh \cup {c} /\ UNCHANGED chanPanic

storeVars == <<store, pub, disabledAt>>
applyVars == <<muServlist, servHash, servCopy, upLocal>>

\* GET succeeded
TaskGet(t) ==
    /\ taskPc[t] = "get"
    /\ taskR' = [taskR EXCEPT ![t] = GetResp]
    /\ taskPc' = [taskPc EXCEPT ![t] = "send"]
    /\ UNCHANGED <<storeVars, applyVars, distLoc, chg, supPc, supR, backoff, nextTask, taskCh,
                   closedCh, chanPanic, errCount, nilWatcher, rt, serverVars, pair>>

\* the return after close(chg): the task ends
AfterCloseNoReturn(t) == [taskPc EXCEPT ![t] = "get"]
AfterClose(t) == [taskPc EXCEPT ![t] = "done"]

\* GET failed: close(chg); return
TaskGetErr(t) ==
    /\ taskPc[t] = "get"
    /\ errCount < MaxErr
    /\ errCount' = errCount + 1
    /\ Close(taskCh[t])
    /\ taskPc' = AfterClose(t)
    /\ UNCHANGED <<storeVars, applyVars, distLoc, chg, supPc, supR, backoff, nextTask, taskCh,
                   taskR, nilWatcher, rt, serverVars, pair>>

\* chg <- r: the channel is unbuffered, the send completes with the supervisor's
\* receive; a send on a closed channel panics. Afterwards the task reads only
\* r.Index (the watcher's AfterIndex), so only that is kept of r
TaskSend(t) ==
    /\ taskPc[t] = "send"
    /\ IF taskCh[t] \in closedCh
       THEN /\ chanPanic' = TRUE
            /\ taskPc' = [taskPc EXCEPT ![t] = "done"]
            /\ UNCHANGED <<supPc, supR, taskR>>
       ELSE /\ supPc = "recv"
            /\ chg = taskCh[t]
            /\ supR' = taskR[t]
            /\ supPc' = "parse"
            /\ taskPc' = [taskPc EXCEPT ![t] = "watch"]
            /\ taskR' = [taskR EXCEPT ![t] = [NoResp EXCEPT !.index = taskR[t].index]]
            /\ UNCHANGED chanPanic
    /\ UNCHANGED <<storeVars, applyVars, distLoc, chg, backoff, nextTask, taskCh,
                   closedCh, errCount, nilWatcher, rt, serverVars, pair>>

\* wop.AfterIndex: the index the watcher is opened after
AfterIndex(r) == r.index

\* watcher.Next returned an event: some write was committed after AfterIndex
TaskWatchEvent(t) ==
    /\ taskPc[t] = "watch"
    /\ store.index > AfterIndex(taskR[t])
    /\ taskPc' = [taskPc EXCEPT ![t] = "get"]
    /\ UNCHANGED <<storeVars, applyVars, distLoc, chg, supPc, supR, backoff, nextTask, taskCh,
                   taskR, closedCh, chanPanic, errCount, nilWatcher, rt, serverVars, pair>>

\* watcher.Next returned an error: close(chg); return
TaskWatchErr(t) ==
    /\ taskPc[t] = "watch"
    /\ errCount < MaxErr
    /\ errCount' = errCount + 1
    /\ Close(taskCh[t])
    /\ taskPc' = AfterClose(t)
    /\ UNCHANGED <<storeVars, applyVars, distLoc, chg, supPc, supR, backoff, nextTask, taskCh,
                   taskR, nilWatcher, rt, serverVars, pair>>

\* Watcher() returned nil: return, the channel stays open
TaskWatcherNil(t) ==
    /\ taskPc[t] = "watch"
    /\ errCount < MaxErr
    /\ errCount' = errCount + 1
    /\ nilWatcher' = TRUE
    /\ taskPc' = [taskPc EXCEPT ![t] = "done"]
    /\ UNCHANGED <<storeVars, applyVars, distLoc, chg, supPc, supR, backoff, nextTask, taskCh,
                   taskR, closedCh, chanPanic, rt, serverVars, pair>>

-----------------------------------------------------------------------------
(* watch: the supervisor goroutine, parseResponse and upServlist *)

\* if chg == nil { chg = make(...); go m.startWatch(chg) }
SpawnAlways(c) == TRUE
SpawnNeeded(c) == c = NoChan

SupTop ==
    /\ supPc = "top"
    /\ IF SpawnNeeded(chg)
       THEN /\ nextTask < MaxTasks
            /\ nextTask' = nextTask + 1
            /\ chg' = IF chg = NoChan THEN nextTask + 1 ELSE chg
            /\ taskPc' = [taskPc EXCEPT ![nextTask + 1] = "get"]
            /\ taskCh' = [taskCh EXCEPT ![nextTask + 1] = chg']
       ELSE UNCHANGED <<nextTask, chg, taskPc, taskCh>>
    /\ supPc' = "recv"
    /\ UNCHANGED <<storeVars, applyVars, distLoc, supR, backoff, taskR, closedCh, chanPanic,
                   errCount, nilWatcher, rt, serverVars, pair>>

\* r, ok := <-chg with ok = false: chg = nil; backoff.BackOff()
DropChanKept(c) == c
DropChan(c) == NoChan

\* the branch assigns chg and the backoff only: m.servHash is what it was
RingOnClosedCleared(h) == [nil |-> TRUE, index |-> 0, elts |-> {}]
RingOnClosed(h) == h

SupRecvClosed ==
    /\ supPc = "recv"
    /\ chg \in closedCh
    /\ chg' = DropChan(chg)
    /\ backoff' = IF backoff < MaxBackoff THEN backoff + 1 ELSE backoff
    /\ supPc' = "top"
    /\ servHash' = RingOnClosed(servHash)
    /\ UNCHANGED <<storeVars, muServlist, servCopy, upLocal, distLoc, supR, nextTask, taskPc,
                   taskCh, taskR, closedCh, chanPanic, errCount, nilWatcher, rt, serverVars, pair>>

NoLocal == [index |-> 0, shash |-> {}, scopy |-> <<>>]

\* m.parseResponse(r) up to upServlist's consistent.NewWithElts(slist); when the
\* response is discarded parseResponse returns and backoff.Reset() follows
SupParse ==
    /\ supPc = "parse"
    /\ LET p == parseResponse(distLoc, supR)
       IN IF p.apply
          THEN /\ upLocal' = [index |-> supR.index, shash |-> RingLabels(p.scopy),
                              scopy |-> p.scopy]
               /\ supPc' = "uplock"
               /\ UNCHANGED backoff
          ELSE /\ supPc' = "top"
               /\ backoff' = 0
               /\ UNCHANGED upLocal
    /\ supR' = NoResp
    /\ UNCHANGED <<storeVars, muServlist, servHash, servCopy, distLoc, chg, nextTask, taskPc,
                   taskCh, taskR, closedCh, chanPanic, errCount, nilWatcher, rt, serverVars, pair>>

\* m.muServlist.Lock() in upServlist
UpLock(mu) == mu = "free"

SupUpLock ==
    /\ supPc = "uplock"
    /\ UpLock(muServlist)
    /\ muServlist' = "watch"
    /\ supPc' = "sethash"
    /\ UNCHANGED <<storeVars, servHash, servCopy, upLocal, distLoc, chg, supR, backoff,
                   nextTask, taskPc, taskCh, taskR, closedCh, chanPanic, errCount, nilWatcher,
                   rt, serverVars, pair>>

\* m.servHash = shash
SetHashKeepIfEmpty(old, new) == IF new.elts = {} THEN old ELSE new
SetHash(old, new) == new

SupSetHash ==
    /\ supPc = "sethash"
    /\ servHash' = SetHash(servHash,
                           [nil |-> FALSE, index |-> upLocal.index, elts |-> upLocal.shash])
    /\ supPc' = "setcopy"
    /\ UNCHANGED <<storeVars, muServlist, servCopy, upLocal, distLoc, chg, supR, backoff,
                   nextTask, taskPc, taskCh, taskR, closedCh, chanPanic, errCount, nilWatcher,
                   rt, serverVars, pair>>

\* m.servCopy = scopy; the deferred Unlock; back in watch(): backoff.Reset()
SupSetCopy ==
    /\ supPc = "setcopy"
    /\ servCopy' = [index |-> upLocal.index, copies |-> upLocal.scopy]
    /\ muServlist' = "free"
    /\ upLocal' = NoLocal
    /\ backoff' = 0
    /\ supPc' = "top"
    /\ UNCHANGED <<storeVars, servHash, distLoc, chg, supR, nextTask, taskPc, taskCh, taskR,
                   closedCh, chanPanic, errCount, nilWatcher, rt, serverVars, pair>>

-----------------------------------------------------------------------------
(* GetServAddr / GetServAddrWithServid: one caller *)

RtIdle == [pc |-> "idle", op |-> "", proc |-> "", key |-> <<>>, sid |-> 0,
           ringIdx |-> 0, mapIdx |-> 0, ret |-> NilInfo]

watchVars == <<chg, supPc, supR, backoff, nextTask, taskPc, taskCh, taskR, closedCh,
               chanPanic, errCount, nilWatcher>>

\* m.muServlist.Lock() in GetServAddr / GetServAddrWithServid
GetLockMissing(mu) == TRUE
GetLock(mu) == mu = "free"

\* GetServAddr(processor, key): Lock, the ring lookup and the parse of the label;
\* the result is nil when the ring is nil or empty
RingResult(r0, hash) ==
    IF hash.nil
    THEN [r0 EXCEPT !.pc = "ret", !.ret = NilInfo]
    ELSE LET g == RingGet(hash.elts, r0.key)
             l == LabelSid(g.elt)
         IN IF g.err \/ l.err
            THEN [r0 EXCEPT !.pc = "ret", !.ret = NilInfo, !.ringIdx = hash.index,
                            !.mapIdx = hash.index]
            ELSE [r0 EXCEPT !.pc = "lookup", !.sid = l.sid, !.ringIdx = hash.index]

CallGetServAddr(proc, key) ==
    /\ rt.pc = "idle"
    /\ GetLock(muServlist)
    /\ muServlist' = "router"
    /\ rt' = RingResult([RtIdle EXCEPT !.op = "GetServAddr", !.proc = proc, !.key = key],
                        servHash)
    /\ UNCHANGED <<storeVars, servHash, servCopy, upLocal, distLoc, watchVars, serverVars, pair>>

\* GetServAddrWithServid(servid, processor, key): Lock
CallGetServAddrWithServid(sid, proc) ==
    /\ rt.pc = "idle"
    /\ GetLock(muServlist)
    /\ muServlist' = "router"
    /\ rt' = [RtIdle EXCEPT !.pc = "lookup", !.op = "WithServid", !.proc = proc, !.sid = sid]
    /\ UNCHANGED <<storeVars, servHash, servCopy, upLocal, distLoc, watchVars, serverVars, pair>>

\* m.getServAddrWithServid(sid, processor, key)
MapLookup ==
    /\ rt.pc = "lookup"
    /\ rt' = [rt EXCEPT !.pc = "ret",
                        !.ret = getServAddrWithServid(servCopy.copies, rt.sid, rt.proc),
                        !.mapIdx = servCopy.index]
    /\ UNCHANGED <<storeVars, applyVars, distLoc, watchVars, serverVars, pair>>

\* the deferred Unlock and the return
RouterReturn ==
    /\ rt.pc = "ret"
    /\ muServlist' = "free"
    /\ rt' = RtIdle
    /\ UNCHANGED <<storeVars, servHash, servCopy, upLocal, distLoc, watchVars, serverVars, pair>>

-----------------------------------------------------------------------------
(* Spec: the store and one Client *)

SrvIdle == [p \in {} |-> 0]

InitServerIdle ==
    /\ srv = SrvIdle
    /\ lockHolder = 0
    /\ csKeys = {}
    /\ sigBudget = 0

InitClient ==
    /\ store = [index |-> 1, nodes |-> InitNodes]
    /\ pub = [s \in SlotIds |->
                IF s = 0 THEN [registered |-> TRUE, servs |-> FullServs(0), disable |-> FALSE]
                ELSE [registered |-> FALSE, servs |-> EmptyServs, disable |-> FALSE]]
    /\ disabledAt = [s \in SlotIds |-> 0]
    /\ distLoc = "v2"
    /\ muServlist = "free"
    /\ servHash = [nil |-> TRUE, index |-> 0, elts |-> {}]
    /\ servCopy = [index |-> 0, copies |-> <<>>]
    /\ chg = NoChan
    /\ supPc = "top"
    /\ supR = NoResp
    /\ upLocal = NoLocal
    /\ backoff = 0
    /\ nextTask = 0
    /\ taskPc = [t \in TaskIds |-> "none"]
    /\ taskCh = [t \in TaskIds |-> NoChan]
    /\ taskR = [t \in TaskIds |-> NoResp]
    /\ closedCh = {}
    /\ chanPanic = FALSE
    /\ errCount = 0
    /\ nilWatcher = FALSE
    /\ rt = RtIdle

\* no pair of Clients is run
PairIdle == [rel |-> "none", cl |-> <<>>]

Init == InitClient /\ InitServerIdle /\ pair = PairIdle

\* the watch loop while the store answers every GET and watch
WatchStep ==
    \/ \E t \in TaskIds : TaskGet(t)
    \/ \E t \in TaskIds : TaskSend(t)
    \/ \E t \in TaskIds : TaskWatchEvent(t)
    \/ SupTop
    \/ SupParse
    \/ SupUpLock
    \/ SupSetHash
    \/ SupSetCopy

\* the store fails a GET or a watch, and the supervisor's reaction
FaultStep ==
    \/ \E t \in TaskIds : TaskGetErr(t)
    \/ \E t \in TaskIds : TaskWatchErr(t)
    \/ \E t \in TaskIds : TaskWatcherNil(t)
    \/ SupRecvClosed

\* Spec: store writes, the watch loop and a caller of the router
Next ==
    \/ StoreStep
    \/ WatchStep
    \/ \E proc \in QueryProcs : \E key \in Keys : CallGetServAddr(proc, key)
    \/ \E sid \in SlotIds : \E proc \in QueryProcs : CallGetServAddrWithServid(sid, proc)
    \/ MapLookup
    \/ RouterReturn

Spec == Init /\ [][Next]_vars

\* WatchSpec: store writes, the watch loop and store errors with the restarts
\* they cause
WatchNext ==
    \/ StoreStep
    \/ WatchStep
    \/ FaultStep

WatchSpec == Init /\ [][WatchNext]_vars

\* ReassemblySpec: store writes, among them a stray directory, and the watch loop
StrayDirStep ==
    /\ WriteStrayDir
    /\ UNCHANGED clientOnly
    /\ UNCHANGED <<serverVars, pair>>

ReassemblyNext ==
    \/ StoreStep
    \/ StrayDirStep
    \/ WatchStep

ReassemblySpec == Init /\ [][ReassemblyNext]_vars

\* the supervisor goroutine and the startWatch goroutines as the scheduler runs
\* them: a goroutine that can take its next step eventually takes it. Store
\* writes and store failures are under no such obligation
SupStep == SupTop \/ SupRecvClosed \/ SupParse \/ SupUpLock \/ SupSetHash \/ SupSetCopy

TaskStep(t) == TaskGet(t) \/ TaskSend(t) \/ TaskWatchEvent(t)

\* the store writes of WatchFairSpec: instances switching their disable flag
StoreToggle ==
    /\ \E s \in SlotIds : \E d \in BOOLEAN : SetGroupAndDisable(s, d)
    /\ UNCHANGED clientOnly
    /\ UNCHANGED <<serverVars, pair>>

WatchFairNext ==
    \/ StoreToggle
    \/ WatchStep
    \/ FaultStep

WatchFairSpec ==
    /\ Init
    /\ [][WatchFairNext]_vars
    /\ WF_vars(SupStep)
    /\ \A t \in TaskIds : WF_vars(TaskStep(t))

-----------------------------------------------------------------------------
(* Server.Init: the orchestrator, one record per process                   *)

\* processor names, as character sequences
NameA == <<"a">>
NameB == <<"b">>
NameReserved == <<"_", "x">>
NameEmpty == <<>>

\* a Processor of the caller's map, by what Init and Driver make of it:
\*   "ok"       Init succeeds, Driver returns a driver that binds
\*   "nilproc"  the map holds a nil Processor
\*   "initfail" Init returns an error
\*   "nodriver" Driver returns a nil driver
\*   "unknown"  Driver returns a driver of no known type
\*   "bindfail" the listener cannot be opened
ProcKinds == {"ok", "nilproc", "initfail", "nodriver", "unknown", "bindfail"}

NoProcs == [n \in {} |-> "ok"]

ProcMaps ==
    {NoProcs,
     [n \in {NameA} |-> "ok"],
     [n \in {NameReserved} |-> "ok"],
     [n \in {NameEmpty, NameReserved} |-> "ok"]}
    \cup {[n \in {NameA, NameB} |-> IF n = NameA THEN "ok" ELSE k] : k \in ProcKinds}

ErrNone == ""
ErrPrefix == "processor name can not prefix '_'"
ErrEmpty == "processor name empty"
ErrNil == "processor is nil"
ErrInit == "processor init err"
ErrDriver == "processor driver not recognition"
ErrBind == "listen error"
ErrServBase == "init servbase err"
ErrLock == "LockGlobal err"
ErrInitfn == "callInitFunc err"
ErrRegister == "register service err"
ErrCrossDC == "register cross dc err"

Ev(e, n) == <<e, n>>

\* the process record at the entry of Server.Init
SrvStart(model, disable, procs) ==
    [pc |-> "start", model |-> model, disable |-> disable, procs |-> procs,
     seen |-> {}, bound |-> {}, err |-> ErrNone, log |-> <<>>,
     sigq |-> <<>>, handled |-> <<>>, stopCalls |-> 0]

\* Serve / Init, MasterSlave and Test
EntryArgs ==
    {SrvStart(MODEL_SERVER, FALSE, m) : m \in ProcMaps}
    \cup {SrvStart(MODEL_MASTERSLAVE, FALSE, m) : m \in ProcMaps}
    \cup {SrvStart(MODEL_SERVER, TRUE, NoProcs)}

SrvIds == DOMAIN srv

KeysOf(p) == {k \in csKeys : k[1] = p}

Fail(r, e) == [r EXCEPT !.pc = "failed", !.err = e]
Step(r, pc, e, n) == [r EXCEPT !.pc = pc, !.log = Append(@, Ev(e, n))]

\* NewServBaseV2: the publisher is built and reserves its slot
SrvNewServBase(p) ==
    /\ srv[p].pc = "start"
    /\ \E ok \in BOOLEAN :
          IF ok
          THEN /\ srv' = [srv EXCEPT ![p] = Step(@, "backdoor", "servbase", <<>>)]
               /\ csKeys' = csKeys \cup {<<p, "slot">>}
          ELSE /\ srv' = [srv EXCEPT ![p] = Fail(@, ErrServBase)]
               /\ UNCHANGED csKeys
    /\ UNCHANGED <<lockHolder, sigBudget, clientVars, pair>>

\* m.initBackdoor(sb): the result is ignored by Init
SrvInitBackdoor(p) ==
    /\ srv[p].pc = "backdoor"
    /\ \E ok \in BOOLEAN :
          /\ srv' = [srv EXCEPT ![p] = Step(@, "model", "backdoor", <<>>)]
          /\ csKeys' = IF ok THEN csKeys \cup {<<p, "backdoor">>} ELSE csKeys
    /\ UNCHANGED <<lockHolder, sigBudget, clientVars, pair>>

\* handleModel: if model == MODEL_MASTERSLAVE { sb.LockGlobal(lockKey) }
NeedsLockNever(model) == FALSE
NeedsLock(model) == model = MODEL_MASTERSLAVE

\* LockGlobal returned nil (it blocks while another process holds the lock), or
\* the model needs no lock
SrvHandleModel(p) ==
    /\ srv[p].pc = "model"
    /\ IF NeedsLock(srv[p].model)
       THEN lockHolder = 0 /\ lockHolder' = p
       ELSE UNCHANGED lockHolder
    /\ srv' = [srv EXCEPT ![p] = Step(@, "initfn", "model", <<>>)]
    /\ UNCHANGED <<csKeys, sigBudget, clientVars, pair>>

\* LockGlobal returned an error
SrvHandleModelErr(p) ==
    /\ srv[p].pc = "model"
    /\ NeedsLock(srv[p].model)
    /\ srv' = [srv EXCEPT ![p] = Fail(@, ErrLock)]
    /\ UNCHANGED <<lockHolder, csKeys, sigBudget, clientVars, pair>>

\* err = initfn(sb); if err != nil { return err }
AfterInitfnIgnoreErr(r, ok) == [r EXCEPT !.pc = "tracer"]
AfterInitfn(r, ok) == IF ok THEN [r EXCEPT !.pc = "tracer"] ELSE Fail(r, ErrInitfn)

SrvInitfn(p) ==
    /\ srv[p].pc = "initfn"
    /\ \E ok \in BOOLEAN :
          srv' = [srv EXCEPT ![p] =
                    AfterInitfn([@ EXCEPT !.log = Append(@, Ev(IF ok THEN "initfn-ok" ELSE "initfn-err", <<>>))],
                                ok)]
    /\ UNCHANGED <<lockHolder, csKeys, sigBudget, clientVars, pair>>

\* m.initTracer(servLoc): the result is ignored
SrvInitTracer(p) ==
    /\ srv[p].pc = "tracer"
    /\ srv' = [srv EXCEPT ![p] = Step(@, "procs", "tracer", <<>>)]
    /\ UNCHANGED <<lockHolder, csKeys, sigBudget, clientVars, pair>>

\* one iteration of initProcessor's loop over procs (the order is the map's)
CheckProcessor(r, n) ==
    IF Len(n) = 0 THEN Fail(r, ErrEmpty)
    ELSE IF n[1] = "_" THEN Fail(r, ErrPrefix)
    ELSE IF r.procs[n] = "nilproc" THEN Fail(r, ErrNil)
    ELSE IF r.procs[n] = "initfail"
         THEN Fail([r EXCEPT !.log = Append(@, Ev("init", n))], ErrInit)
    ELSE [r EXCEPT !.seen = @ \cup {n}, !.log = Append(@, Ev("init", n))]

SrvCheckProcessor(p) ==
    /\ srv[p].pc = "procs"
    /\ \E n \in DOMAIN srv[p].procs \ srv[p].seen :
          srv' = [srv EXCEPT ![p] = CheckProcessor(@, n)]
    /\ UNCHANGED <<lockHolder, csKeys, sigBudget, clientVars, pair>>

\* the loop is over: infos, err := m.loadDriver(sb, procs)
SrvChecked(p) ==
    /\ srv[p].pc = "procs"
    /\ DOMAIN srv[p].procs = srv[p].seen
    /\ srv' = [srv EXCEPT ![p] = [@ EXCEPT !.pc = "load", !.seen = {}]]
    /\ UNCHANGED <<lockHolder, csKeys, sigBudget, clientVars, pair>>

\* one iteration of loadDriver's loop: a nil driver is skipped, a known driver
\* is bound and served, anything else is an error
LoadDriverOne(r, n) ==
    IF r.procs[n] = "nodriver" THEN [r EXCEPT !.seen = @ \cup {n}]
    ELSE IF r.procs[n] = "unknown" THEN Fail(r, ErrDriver)
    ELSE IF r.procs[n] = "bindfail" THEN Fail(r, ErrBind)
    ELSE [r EXCEPT !.seen = @ \cup {n}, !.bound = @ \cup {n},
                   !.log = Append(@, Ev("bind", n))]

SrvLoadDriver(p) ==
    /\ srv[p].pc = "load"
    /\ \E n \in DOMAIN srv[p].procs \ srv[p].seen :
          srv' = [srv EXCEPT ![p] = LoadDriverOne(@, n)]
    /\ UNCHANGED <<lockHolder, csKeys, sigBudget, clientVars, pair>>

SrvLoaded(p) ==
    /\ srv[p].pc = "load"
    /\ DOMAIN srv[p].procs = srv[p].seen
    /\ srv' = [srv EXCEPT ![p].pc = "register"]
    /\ UNCHANGED <<lockHolder, csKeys, sigBudget, clientVars, pair>>

\* err = sb.RegisterService(infos)
SrvRegisterService(p) ==
    /\ srv[p].pc = "register"
    /\ \E ok \in BOOLEAN :
          IF ok
          THEN /\ srv' = [srv EXCEPT ![p] = Step(@, "crossdc", "register", <<>>)]
               /\ csKeys' = csKeys \cup {<<p, "reg">>}
          ELSE /\ srv' = [srv EXCEPT ![p] =
                            Fail([@ EXCEPT !.log = Append(@, Ev("register", <<>>))], ErrRegister)]
               /\ UNCHANGED csKeys
    /\ UNCHANGED <<lockHolder, sigBudget, clientVars, pair>>

\* err = sb.RegisterCrossDCService(infos); if err != nil { return err }
SrvRegisterCrossDC(p) ==
    /\ srv[p].pc = "crossdc"
    /\ \E ok \in BOOLEAN :
          IF ok
          THEN /\ srv' = [srv EXCEPT ![p] = Step(@, "setgroup", "crossdc", <<>>)]
               /\ csKeys' = csKeys \cup {<<p, "crossdc">>}
          ELSE /\ srv' = [srv EXCEPT ![p] = Fail(@, ErrCrossDC)]
               /\ UNCHANGED csKeys
    /\ UNCHANGED <<lockHolder, sigBudget, clientVars, pair>>

\* sb.SetGroupAndDisable(args.group, args.disable)
SrvSetGroupAndDisable(p) ==
    /\ srv[p].pc = "setgroup"
    /\ srv' = [srv EXCEPT ![p] = Step(@, "metric", "setgroup", <<>>)]
    /\ UNCHANGED <<lockHolder, csKeys, sigBudget, clientVars, pair>>

\* m.initMetric(sb): the result is ignored; then awaitSignal installs the
\* signal channel
SrvInitMetric(p) ==
    /\ srv[p].pc = "metric"
    /\ \E ok \in BOOLEAN :
          /\ srv' = [srv EXCEPT ![p] = Step(@, "await", "metric", <<>>)]
          /\ csKeys' = IF ok THEN csKeys \cup {<<p, "metrics">>} ELSE csKeys
    /\ UNCHANGED <<lockHolder, sigBudget, clientVars, pair>>

-----------------------------------------------------------------------------
(* awaitSignal *)

Signals == {"SIGTERM", "SIGINT", "SIGQUIT", "SIGPIPE"}

\* the operating system raises a signal: signal.Notify never blocks, a signal
\* that finds the channel (capacity 1) full is dropped
SigRaise(p, sig) ==
    /\ srv[p].pc \in {"await", "parked"}
    /\ sigBudget > 0
    /\ sigBudget' = sigBudget - 1
    /\ srv' = [srv EXCEPT ![p].sigq = IF Len(@) < 1 THEN Append(@, sig) ELSE @]
    /\ UNCHANGED <<lockHolder, csKeys, clientVars, pair>>

\* if s.String() == syscall.SIGTERM.String() { sb.Stop(); <-(chan int)(nil) }
AfterSignalNoPark(sig) == "await"
AfterSignal(sig) == IF sig = "SIGTERM" THEN "parked" ELSE "await"

\* case s := <-c
SigHandle(p) ==
    /\ srv[p].pc = "await"
    /\ srv[p].sigq # <<>>
    /\ LET sig == Head(srv[p].sigq)
       IN /\ srv' = [srv EXCEPT ![p] =
                       [@ EXCEPT !.sigq = Tail(@),
                                 !.handled = Append(@, sig),
                                 !.stopCalls = IF sig = "SIGTERM" THEN @ + 1 ELSE @,
                                 !.pc = AfterSignal(sig)]]
          \* ServBaseV2.Stop(): the lease is released, the store deletes reg
          /\ csKeys' = IF sig = "SIGTERM" THEN csKeys \ {<<p, "reg">>} ELSE csKeys
    /\ UNCHANGED <<lockHolder, sigBudget, clientVars, pair>>

\* the process ends: Init's error return (slog.Panicf) or a kill from outside;
\* the store releases the leader lock of a dead holder
SrvExit(p) ==
    /\ srv[p].pc # "dead"
    /\ srv' = [srv EXCEPT ![p].pc = "dead"]
    /\ lockHolder' = IF lockHolder = p THEN 0 ELSE lockHolder
    /\ UNCHANGED <<csKeys, sigBudget, clientVars, pair>>

SrvNext ==
    \/ \E p \in SrvIds : SrvNewServBase(p)
    \/ \E p \in SrvIds : SrvInitBackdoor(p)
    \/ \E p \in SrvIds : SrvHandleModel(p)
    \/ \E p \in SrvIds : SrvHandleModelErr(p)
    \/ \E p \in SrvIds : SrvInitfn(p)
    \/ \E p \in SrvIds : SrvInitTracer(p)
    \/ \E p \in SrvIds : SrvCheckProcessor(p)
    \/ \E p \in SrvIds : SrvChecked(p)
    \/ \E p \in SrvIds : SrvLoadDriver(p)
    \/ \E p \in SrvIds : SrvLoaded(p)
    \/ \E p \in SrvIds : SrvRegisterService(p)
    \/ \E p \in SrvIds : SrvRegisterCrossDC(p)
    \/ \E p \in SrvIds : SrvSetGroupAndDisable(p)
    \/ \E p \in SrvIds : SrvInitMetric(p)
    \/ \E p \in SrvIds : \E sig \in Signals : SigRaise(p, sig)
    \/ \E p \in SrvIds : SigHandle(p)
    \/ \E p \in SrvIds : SrvExit(p)

\* SrvSpec: one process started through Serve, Init, MasterSlave or Test
SrvInit ==
    /\ InitClient
    /\ pair = PairIdle
    /\ \E a \in EntryArgs : srv = [p \in {1} |-> a]
    /\ lockHolder = 0
    /\ csKeys = {}
    /\ sigBudget = MaxSig

SrvSpec == SrvInit /\ [][SrvNext]_vars

\* MsSpec: two processes started concurrently through MasterSlave on the same
\* service
MsProcMaps == {[n \in {NameA} |-> "ok"], [n \in {NameReserved} |-> "ok"]}

MsInit ==
    /\ InitClient
    /\ pair = PairIdle
    /\ \E m1 \in MsProcMaps : \E m2 \in MsProcMaps :
          srv = [p \in {1, 2} |-> SrvStart(MODEL_MASTERSLAVE, FALSE, IF p = 1 THEN m1 ELSE m2)]
    /\ lockHolder = 0
    /\ csKeys = {}
    /\ sigBudget = 1

MsSpec == MsInit /\ [][SrvNext]_vars

-----------------------------------------------------------------------------
(* Two Clients, each built on its own view of the store: checkDistVersion, *)
(* one GET, parseResponse, upServlist in some iteration order of the map,  *)
(* then GetServAddr for every processor and key                            *)

\* the answer of a recursive GET of a service path: an error, or the children
Missing == [err |-> TRUE, nodes |-> [n \in ChildNames |-> AbsentNode]]
TreeOf(nodes) == [err |-> FALSE, nodes |-> nodes]

BothServs(s) == [p \in QueryProcs |-> ServInfoOf(s, p)]

\* what a slot of the v2 layout may hold
SlotOpts == {"absent", "plain", "w2", "off", "w0", "neg", "badmanual", "badreg",
             "partial", "both", "gone"}

NodeOf(s, opt) ==
    CASE opt = "absent" -> AbsentNode
      [] opt = "plain" -> SlotNode(RegJson(FullServs(s), FALSE), NoManual)
      [] opt = "w2" -> SlotNode(RegJson(FullServs(s), FALSE), ManualJson(2, FALSE))
      [] opt = "off" -> SlotNode(RegJson(FullServs(s), FALSE), ManualJson(0, TRUE))
      [] opt = "w0" -> SlotNode(RegJson(FullServs(s), FALSE), ManualJson(0, FALSE))
      [] opt = "neg" -> SlotNode(RegJson(FullServs(s), FALSE), ManualJson(-1, FALSE))
      [] opt = "badmanual" -> SlotNode(RegJson(FullServs(s), FALSE), ManualBad)
      [] opt = "badreg" -> SlotNode(RegBad, NoManual)
      [] opt = "partial" -> SlotNode(RegPartial(FullServs(s)), NoManual)
      [] opt = "both" -> SlotNode(RegJson(BothServs(s), FALSE), NoManual)
      [] opt = "gone" -> SlotNode(NoReg, ManualJson(2, FALSE))

SlotOfName(n) == CHOOSE s \in SlotIds : SlotName(s) = n
IsSlotName(n) == \E s \in SlotIds : SlotName(s) = n

V2Trees ==
    {TreeOf([n \in ChildNames |->
                IF IsSlotName(n) THEN NodeOf(SlotOfName(n), f[SlotOfName(n)]) ELSE AbsentNode])
        : f \in [SlotIds -> SlotOpts]}

\* the same instances published in the v1 layout: the slot key holds the servs
V1NodeOf(node) ==
    IF node.present /\ node.dir /\ node.reg.kind = "ok"
    THEN V1Node(ServsJson(node.reg.servs))
    ELSE V1Absent

V1Of(t) == IF t.err THEN Missing ELSE TreeOf([n \in ChildNames |-> V1NodeOf(t.nodes[n])])

V1Default ==
    TreeOf([n \in ChildNames |->
              IF n = SlotName(0) THEN V1Node(ServsJson(FullServs(0))) ELSE V1Absent])

\* how the second Client's view is derived from the first one's
PairRels ==
    {<<"same", 0>>, <<"recode", 0>>, <<"noapi", 0>>, <<"v1", 0>>}
    \cup {<<"drop", s>> : s \in SlotIds}

\* another encoding of the same manual data
Recode(m) ==
    IF m.kind = "none" THEN ManualJson(0, FALSE)
    ELSE IF m = ManualJson(0, FALSE) THEN ManualJson(DefaultWeight, FALSE)
    ELSE m

WithoutApi(servs) == [p \in DOMAIN servs \ {"api"} |-> servs[p]]

VariantNode(n, node, rel) ==
    IF ~node.present THEN node
    ELSE CASE rel[1] = "recode" -> [node EXCEPT !.manual = Recode(@)]
           [] rel[1] = "noapi" -> [node EXCEPT !.reg.servs = WithoutApi(@)]
           [] rel[1] = "drop" -> IF n = SlotName(rel[2]) THEN AbsentNode ELSE node
           [] OTHER -> node

Variant(t, rel) ==
    IF t.err THEN t
    ELSE TreeOf([n \in ChildNames |-> VariantNode(n, t.nodes[n], rel)])

NoRet == <<>>
PairClient(v2, v1) ==
    [pc |-> "probe", v2 |-> v2, v1 |-> v1, loc |-> "", scopy |-> <<>>,
     hash |-> [nil |-> TRUE, index |-> 0, elts |-> {}],
     copy |-> [index |-> 0, copies |-> <<>>],
     ret |-> NoRet]

PairStart(v2, v1, rel) ==
    [rel |-> rel,
     cl |-> << PairClient(v2, v1),
               IF rel[1] = "v1" THEN PairClient(Missing, V1Of(v2))
               ELSE PairClient(Variant(v2, rel), v1) >>]

\* checkDistVersion: v2 if the GET of the v2 path succeeds and some child
\* directory has a reg key with a non-empty value; else v1 if the GET of the v1
\* path succeeds; else v2
HasRegValue(t) ==
    \E n \in DOMAIN t.nodes :
        t.nodes[n].present /\ t.nodes[n].dir /\ t.nodes[n].reg.kind # "none"

checkDistVersionV1Always(g2, g1) == IF ~g2.err /\ HasRegValue(g2) THEN "v2" ELSE "v1"
checkDistVersion(g2, g1) ==
    IF ~g2.err /\ HasRegValue(g2) THEN "v2"
    ELSE IF ~g1.err THEN "v1"
    ELSE "v2"

\* the second Client is built when the first has answered
PairTurn(c) == c = 1 \/ pair.cl[1].pc = "done"

\* NewClientEtcdV2: distloc := checkDistVersion(...)
PairProbe(c) ==
    /\ PairTurn(c)
    /\ pair.cl[c].pc = "probe"
    /\ UNCHANGED <<clientVars, serverVars>>
    /\ pair' = [pair EXCEPT !.cl[c].loc = checkDistVersion(pair.cl[c].v2, pair.cl[c].v1),
                            !.cl[c].pc = "get"]

\* startWatch's GET of servPath and parseResponse of the answer
PairParse(c) ==
    /\ PairTurn(c)
    /\ pair.cl[c].pc = "get"
    /\ UNCHANGED <<clientVars, serverVars>>
    /\ LET t == IF pair.cl[c].loc = "v1" THEN pair.cl[c].v1 ELSE pair.cl[c].v2
           p == parseResponse(pair.cl[c].loc, [index |-> 1, dir |-> TRUE, nodes |-> t.nodes])
       IN IF t.err \/ ~p.apply
          THEN pair' = [pair EXCEPT !.cl[c].pc = "route"]
          ELSE pair' = [pair EXCEPT !.cl[c].pc = "up", !.cl[c].scopy = p.scopy]

\* upServlist, the loop "for sid, c := range scopy" one instance at a time
SlistAppendFirstOnly(slist, c, sid) ==
    IF SkipCopy(c) \/ UpDisable(c) \/ slist # <<>> THEN slist
    ELSE [i \in 1..CtrlWeight(c) |-> Label(sid, i - 1)]
SlistAppend(slist, c, sid) ==
    IF SkipCopy(c) \/ UpDisable(c) THEN slist
    ELSE slist \o [i \in 1..CtrlWeight(c) |-> Label(sid, i - 1)]

RECURSIVE SlistFrom(_, _, _)
SlistFrom(slist, scopy, order) ==
    IF order = <<>> THEN slist
    ELSE SlistFrom(SlistAppend(slist, scopy[Head(order)], Head(order)), scopy, Tail(order))

\* the orders in which a map with key set S may be iterated
Orders(S) ==
    {o \in [1..Cardinality(S) -> S] : \A i \in DOMAIN o : \A j \in DOMAIN o : o[i] = o[j] => i = j}

\* consistent.NewWithElts(slist): the ring is determined by its set of members
NewWithElts(slist) == {slist[i] : i \in 1..Len(slist)}

PairUpServlist(c) ==
    /\ PairTurn(c)
    /\ pair.cl[c].pc = "up"
    /\ UNCHANGED <<clientVars, serverVars>>
    /\ \E order \in Orders(DOMAIN pair.cl[c].scopy) :
          pair' = [pair EXCEPT
                     !.cl[c].hash = [nil |-> FALSE, index |-> 1,
                                     elts |-> NewWithElts(SlistFrom(<<>>, pair.cl[c].scopy, order))],
                     !.cl[c].copy = [index |-> 1, copies |-> pair.cl[c].scopy],
                     !.cl[c].scopy = <<>>,
                     !.cl[c].pc = "route"]

\* GetServAddr(processor, key) on a Client at rest
GetServAddr(hash, copies, processor, key) ==
    LET r == RingResult([RtIdle EXCEPT !.op = "GetServAddr", !.proc = processor, !.key = key],
                        hash)
    IN IF r.pc = "ret" THEN r.ret
       ELSE getServAddrWithServid(copies, r.sid, processor)

Queries == QueryProcs \X Keys

PairRoute(c) ==
    /\ PairTurn(c)
    /\ pair.cl[c].pc = "route"
    /\ UNCHANGED <<clientVars, serverVars>>
    /\ pair' = [pair EXCEPT
                  !.cl[c].ret = [q \in Queries |->
                                   GetServAddr(pair.cl[c].hash, pair.cl[c].copy.copies, q[1], q[2])],
                  !.cl[c].pc = "done"]

PairNext ==
    \/ \E c \in {1, 2} : PairProbe(c)
    \/ \E c \in {1, 2} : PairParse(c)
    \/ \E c \in {1, 2} : PairUpServlist(c)
    \/ \E c \in {1, 2} : PairRoute(c)

\* the v1 subtree is read only by a Client whose v2 subtree shows no reg value:
\* when neither Client reads it, it is left out
V1Choices(v2, rel) ==
    IF HasRegValue(v2) /\ rel[1] # "v1" /\ HasRegValue(Variant(v2, rel))
    THEN {Missing}
    ELSE {Missing, V1Default}

PairInit ==
    /\ InitClient
    /\ InitServerIdle
    /\ \E v2 \in V2Trees \cup {Missing} : \E rel \in PairRels : \E v1 \in V1Choices(v2, rel) :
          pair = PairStart(v2, v1, rel)

PairSpec == PairInit /\ [][PairNext]_vars

-----------------------------------------------------------------------------
(* Properties of the Client (Spec, WatchSpec) *)

\* the labels of a ring, parsed as GetServAddr parses them
ParsedLabels(elts) == {LabelSid(l) : l \in elts}

\* the servIds that appear in a ring label
RingSids(elts) == {r.sid : r \in {x \in ParsedLabels(elts) : ~x.err}}

\* manual.ctrl.disable of an applied ServCopy
ManualDisabled(c) == c.manual.hasCtrl /\ c.manual.disable

\* C1 -- Snapshot atomicity: ring and map are replaced together in one critical
\* section and every router call reads both inside one critical section, so a
\* call computes its result from the ring and the map of one applied revision:
\* outside upServlist's critical section ring and map carry the same revision,
\* they do while a call holds the lock, and a returning GetServAddr has read
\* its label and its ServCopy at the same revision.
C1_SnapshotAtomicity ==
    /\ muServlist # "watch" => servHash.index = servCopy.index
    /\ rt.pc \in {"lookup", "ret"} => muServlist = "router"
    /\ (rt.pc = "lookup" /\ rt.op = "GetServAddr") => rt.ringIdx = servCopy.index
    /\ (rt.pc = "ret" /\ rt.op = "GetServAddr") => rt.ringIdx = rt.mapIdx

\* a GetServAddr call returns an endpoint while upServlist waits for the lock
\* with the ring of a later revision
C1_Witness ==
    /\ rt.pc = "ret" /\ rt.op = "GetServAddr" /\ rt.ret # NilInfo
    /\ supPc = "uplock" /\ upLocal.index > rt.ringIdx

\* C2 -- (the claim) once SetGroupAndDisable(_, true) of an instance is
\* published at revision R, a GetServAddr answered from a snapshot of revision
\* >= R never returns an endpoint of that instance.
C2_DisabledNeverRouted ==
    \A s \in SlotIds :
        (disabledAt[s] > 0 /\ rt.pc = "ret" /\ rt.op = "GetServAddr"
            /\ rt.mapIdx >= disabledAt[s])
        => rt.ret.addr[1] # s

\* every servId parsed from a label of ring h has in map c a ServCopy with
\* non-nil reg and non-empty reg.servs
MembersHaveServs(h, c) ==
    \A r \in ParsedLabels(h.elts) :
        /\ ~r.err
        /\ r.sid \in DOMAIN c.copies
        /\ ~c.copies[r.sid].reg.isNil
        /\ DOMAIN c.copies[r.sid].reg.servs # {}

\* C3 -- every servId in a ring label has a ServCopy with non-nil reg and
\* non-empty reg.servs (in every state outside upServlist's critical section):
\* it holds of the initial ring and map, and of ring and map after every step
\* that leaves the critical section or changes either of them outside it.
C3_RingMembersHaveServs ==
    /\ MembersHaveServs(servHash, servCopy)
    /\ [][(/\ muServlist' # "watch"
           /\ (muServlist = "watch" \/ <<servHash, servCopy>>' # <<servHash, servCopy>>))
            => MembersHaveServs(servHash', servCopy')]_vars

\* a snapshot is applied in which one instance is in the ring and another has
\* an entry in servCopy with empty reg.servs
C3_Witness ==
    /\ muServlist # "watch"
    /\ servHash.elts # {}
    /\ \E s \in DOMAIN servCopy.copies : DOMAIN servCopy.copies[s].reg.servs = {}

\* C4 -- an instance whose manual.ctrl.disable is true in the applied snapshot
\* has no label in the ring, and GetServAddrWithServid for it returns nil.
C4_DisabledNotInRing ==
    muServlist # "watch" =>
        LET sids == RingSids(servHash.elts)
        IN \A s \in DOMAIN servCopy.copies :
            ManualDisabled(servCopy.copies[s]) =>
                /\ s \notin sids
                /\ (rt.pc = "ret" /\ rt.op = "WithServid" /\ rt.sid = s) => rt.ret = NilInfo

\* GetServAddrWithServid returns for an instance that is disabled by manual and
\* has published endpoints for the processor asked for
C4_Witness ==
    /\ rt.pc = "ret" /\ rt.op = "WithServid"
    /\ rt.sid \in DOMAIN servCopy.copies
    /\ ManualDisabled(servCopy.copies[rt.sid])
    /\ rt.proc \in DOMAIN servCopy.copies[rt.sid].reg.servs

\* C7 -- the revisions of the snapshots a Client applies never decrease, also
\* across restarts of the watch loop.
C7_RevisionsMonotone ==
    [][servCopy'.index >= servCopy.index /\ servHash'.index >= servHash.index]_vars

\* a snapshot newer than the first one is applied from a startWatch that was
\* started after an error closed the previous channel
C7_Witness ==
    /\ nextTask >= 2
    /\ servCopy.index >= 2
    /\ \E t \in TaskIds : t >= 2 /\ taskPc[t] = "watch" /\ taskR[t].index = servCopy.index

\* the watch loop is at rest: the supervisor waits in its receive and the
\* producer waits in watcher.Next with AfterIndex equal to the store's index
AtRest ==
    /\ supPc = "recv"
    /\ \E t \in TaskIds :
          taskPc[t] = "watch" /\ taskCh[t] = chg /\ AfterIndex(taskR[t]) = store.index

\* C8 -- (the claim) no change is missed: without store errors, once the watch
\* loop is at rest the Client has applied a snapshot that contains every
\* change, i.e. the snapshot of the store's current index.
C8_NoChangeMissed ==
    (AtRest /\ errCount = 0) => servCopy.index = store.index

-----------------------------------------------------------------------------
(* Properties of the Server (SrvSpec, MsSpec) *)

Alive(p) == srv[p].pc # "dead"
EvIdx(p, e) == {i \in 1..Len(srv[p].log) : srv[p].log[i][1] = e}
Logged(p, e) == EvIdx(p, e) # {}
\* every occurrence of e2 in the log of p comes after an occurrence of e1
Precedes(p, e1, e2) == \A j \in EvIdx(p, e2) : \E i \in EvIdx(p, e1) : i < j
HasReserved(m) == \E n \in DOMAIN m : Len(n) > 0 /\ n[1] = "_"

\* C5: master/slave mutual exclusion. Of two processes started concurrently in
\* master/slave mode, at every moment at most one live process has returned
\* from LockGlobal in handleModel (and so can be at initfn, binding its
\* processors or calling RegisterService); that process holds the lock and any
\* other live process that has entered handleModel is still waiting in it.
C5_MasterSlaveExclusion ==
    \A p \in SrvIds : \A q \in SrvIds :
        (p # q /\ Alive(p) /\ Logged(p, "model"))
            => /\ lockHolder = p
               /\ Alive(q) => ~Logged(q, "model")
               /\ Alive(q) => ~Logged(q, "initfn-ok") /\ ~Logged(q, "bind") /\ ~Logged(q, "register")

C5_Witness ==
    \E p \in SrvIds : \E q \in SrvIds :
        /\ p # q
        /\ srv[p].model = MODEL_MASTERSLAVE /\ srv[q].model = MODEL_MASTERSLAVE
        /\ Logged(p, "register") /\ srv[p].pc = "await"
        /\ srv[q].pc = "model"

\* C6: a server started with a processor name beginning with '_' fails with
\* the error "processor name can not prefix '_'", and at the moment
\* initProcessor fails the process has written no key to the coordination
\* store (no slot, no reg, no backdoor registration).
C6_ReservedNameWritesNothing ==
    \A p \in SrvIds :
        (HasReserved(srv[p].procs) /\ srv[p].pc = "failed" /\ Logged(p, "tracer"))
            => /\ srv[p].err = ErrPrefix
               /\ KeysOf(p) = {}

SigCount(h, sig) == Cardinality({i \in 1..Len(h) : h[i] = sig})

C10_SignalHandling ==
    \A p \in SrvIds :
        LET h == srv[p].handled
        IN /\ srv[p].stopCalls = SigCount(h, "SIGTERM")
           /\ srv[p].stopCalls <= 1
           /\ \A i \in 1..Len(h) : h[i] = "SIGTERM" => i = Len(h)
           /\ srv[p].pc = "parked" <=> (Alive(p) /\ srv[p].stopCalls = 1)
           /\ srv[p].pc = "await" => srv[p].stopCalls = 0
           /\ Len(h) > 0 => srv[p].pc \in {"await", "parked", "dead"}

C10_Witness ==
    \E p \in SrvIds :
        /\ srv[p].pc = "parked"
        /\ Len(srv[p].handled) = 2
        /\ srv[p].handled[1] # "SIGTERM"
        /\ srv[p].sigq = <<"SIGTERM">>

-----------------------------------------------------------------------------
(* Properties of parse, ring rebuild and routing (PairSpec) *)

PairDone(c) == pair.cl[c].pc = "done" /\ ~pair.cl[c].hash.nil
CopiesOf(c) == pair.cl[c].copy.copies

\* the weight of the claim: manual.ctrl.weight if non-zero, else 100
ClaimWeight(c) ==
    IF c.manual.hasCtrl /\ c.manual.weight # 0 THEN c.manual.weight ELSE DefaultWeight

\* the instances with non-empty reg.servs that are not disabled
ClaimMembers(copies) ==
    {s \in DOMAIN copies :
        /\ ~copies[s].reg.isNil
        /\ DOMAIN copies[s].reg.servs # {}
        /\ ~ManualDisabled(copies[s])}

\* C11 -- ring membership by weight: after a rebuild the ring holds, for every
\* instance with non-empty reg.servs that is not disabled, exactly the labels
\* "<servId>-0" .. "<servId>-(W-1)", W being manual.ctrl.weight if non-zero
\* and 100 if manual or ctrl is absent or the weight is zero, and no other label.
C11_RingByWeight ==
    \A c \in {1, 2} :
        PairDone(c) =>
            pair.cl[c].hash.elts =
                UNION {{Label(s, i) : i \in 0 .. (ClaimWeight(CopiesOf(c)[s]) - 1)} :
                          s \in ClaimMembers(CopiesOf(c))}

\* a rebuilt ring with one instance of weight 2 and one of the default weight
C11_Witness ==
    /\ PairDone(1)
    /\ \E s \in ClaimMembers(CopiesOf(1)) : \E t \in ClaimMembers(CopiesOf(1)) :
          /\ CopiesOf(1)[s].manual.hasCtrl /\ CopiesOf(1)[s].manual.weight = 2
          /\ ~CopiesOf(1)[t].manual.hasCtrl
    /\ Cardinality(pair.cl[1].hash.elts) = 2 + DefaultWeight

\* what an applied snapshot holds of its instances: servId, weight, disable
\* and the whole reg.servs
WholeTuples(copies) ==
    {<<s, ClaimWeight(copies[s]), ManualDisabled(copies[s]), copies[s].reg.servs>> :
        s \in DOMAIN copies}

\* the same with reg.servs[proc] only (nil when the processor is not published)
ServOf(c, proc) == IF proc \in DOMAIN c.reg.servs THEN c.reg.servs[proc] ELSE NilInfo

ProcTuples(copies, proc) ==
    {<<s, ClaimWeight(copies[s]), ManualDisabled(copies[s]), ServOf(copies[s], proc)>> :
        s \in DOMAIN copies}

BothAnswered == pair.cl[1].pc = "done" /\ pair.cl[2].pc = "done"

\* C12 (amended) -- routing determinism: two Clients whose applied snapshots
\* hold the same set of (servId, weight, disable, reg.servs), reg.servs being
\* the whole map of the instance, return the same endpoint from
\* GetServAddr(proc, K) for every processor and key, whatever the order in
\* which each of them iterated its instances while building the ring.
C12_RoutingDeterminism ==
    (BothAnswered /\ WholeTuples(CopiesOf(1)) = WholeTuples(CopiesOf(2)))
        => pair.cl[1].ret = pair.cl[2].ret

\* two Clients that read different encodings of the same instances (manual
\* absent in one, spelled out in the other) and route a key to an endpoint
C12_Witness ==
    /\ BothAnswered
    /\ pair.rel[1] = "recode"
    /\ pair.cl[1].v2 # pair.cl[2].v2
    /\ Cardinality(ClaimMembers(CopiesOf(1))) >= 2
    /\ WholeTuples(CopiesOf(1)) = WholeTuples(CopiesOf(2))
    /\ \E q \in Queries : pair.cl[1].ret[q] # NilInfo

\* C12 (as claimed) -- the same with reg.servs[proc] in place of the whole
\* map: equal sets of (servId, weight, disable, reg.servs[proc]) give equal
\* GetServAddr(proc, K) for every key K.
C12_PerProcessorDeterminism ==
    \A proc \in QueryProcs :
        (BothAnswered /\ ProcTuples(CopiesOf(1), proc) = ProcTuples(CopiesOf(2), proc))
            => \A key \in Keys : pair.cl[1].ret[<<proc, key>>] = pair.cl[2].ret[<<proc, key>>]

\* the v2 subtree was read and one of its child directories has a reg key
\* with a non-empty value
V2Shaped(t) ==
    /\ ~t.err
    /\ \E s \in SlotIds :
          LET n == t.nodes[SlotName(s)]
          IN n.present /\ n.dir /\ n.reg # NoReg

\* C14 (amended) -- version probe: at construction the v2 layout is probed
\* first; the Client uses v2 parsing if the v2 subtree has a slot directory
\* with a non-empty reg child; otherwise it uses v1 if the v1 subtree can be
\* read, and v2 if it cannot. The chosen version never changes afterwards.
C14_VersionProbe ==
    [][\A c \in DOMAIN pair.cl :
          /\ pair'.cl[c].pc # "probe" =>
                pair'.cl[c].loc = IF V2Shaped(pair.cl[c].v2) THEN "v2"
                                  ELSE IF ~pair.cl[c].v1.err THEN "v1"
                                  ELSE "v2"
          /\ pair.cl[c].pc # "probe" => pair'.cl[c].loc = pair.cl[c].loc]_vars

\* a Client that found slot directories without reg under v2, fell back to v1
\* and built its ring from the v1 subtree
C14_Witness ==
    /\ pair.rel[1] # "none"
    /\ pair.cl[1].pc = "done"
    /\ pair.cl[1].loc = "v1"
    /\ ~pair.cl[1].v2.err
    /\ \E s \in SlotIds : pair.cl[1].v2.nodes[SlotName(s)].present
    /\ pair.cl[1].hash.elts # {}

\* C14 (as claimed) -- v2 if the v2 subtree has a slot directory with a reg
\* child, v1 in every other case.
C14_FallbackAlwaysV1 ==
    \A c \in DOMAIN pair.cl :
        pair.cl[c].pc # "probe" =>
            pair.cl[c].loc = IF V2Shaped(pair.cl[c].v2) THEN "v2" ELSE "v1"

\* the subtree holds instance slots only, each with a well-formed reg and no
\* manual key
PlainInstances(t) ==
    /\ ~t.err
    /\ \A n \in DOMAIN t.nodes :
          t.nodes[n].present =>
              /\ IsSlotName(n)
              /\ t.nodes[n].dir
              /\ t.nodes[n].reg.kind = "ok"
              /\ t.nodes[n].manual = NoManual

\* the first Client reassembles the v2 layout, the second the v1 layout of the
\* same instances
SameInstancesV2V1 ==
    /\ pair.rel[1] = "v1"
    /\ BothAnswered
    /\ PlainInstances(pair.cl[1].v2)
    /\ pair.cl[1].loc = "v2"
    /\ pair.cl[2].loc = "v1"

\* C15 -- version equivalence: for the same set of instances with the same
\* endpoints and no manual data, a Client using v1 reassembly and a Client
\* using v2 reassembly build the same ring label set and return the same
\* GetServAddr result for every processor and key.
C15_VersionEquivalence ==
    SameInstancesV2V1 =>
        /\ pair.cl[1].hash = pair.cl[2].hash
        /\ pair.cl[1].ret = pair.cl[2].ret

\* two instances, one of them with two processors, read in both layouts
C15_Witness ==
    /\ SameInstancesV2V1
    /\ Cardinality(DOMAIN CopiesOf(1)) >= 2
    /\ Cardinality(DOMAIN CopiesOf(2)) >= 2
    /\ \E q \in Queries : q[1] = "rpc" /\ pair.cl[2].ret[q] # NilInfo

\* the slots of a v2 subtree whose reg or manual value does not decode
BadSlots(t) ==
    {s \in SlotIds :
        /\ t.nodes[SlotName(s)].present
        /\ t.nodes[SlotName(s)].dir
        /\ \/ t.nodes[SlotName(s)].reg.kind \in {"bad", "partial"}
           \/ t.nodes[SlotName(s)].manual.kind = "bad"}

\* Client c applied a snapshot of the v2 layout
AppliedV2(c) == PairDone(c) /\ pair.cl[c].loc = "v2"

\* C18 -- (the claim) per-slot isolation of parse errors: a slot whose reg or
\* manual JSON fails to decode contributes no ring member and is not routable
\* in that revision, and the other slots of the snapshot are processed as if
\* the bad slot were absent (a second Client that reads the same subtree
\* without that slot builds the same ring and gives the same answers).
C18_BadSlotExcluded ==
    /\ \A c \in {1, 2} :
          AppliedV2(c) =>
              \A s \in BadSlots(pair.cl[c].v2) :
                  /\ s \notin RingSids(pair.cl[c].hash.elts)
                  /\ \A proc \in QueryProcs :
                        getServAddrWithServid(CopiesOf(c), s, proc) = NilInfo
    /\ (/\ AppliedV2(1) /\ AppliedV2(2)
        /\ pair.rel[1] = "drop"
        /\ pair.rel[2] \in BadSlots(pair.cl[1].v2))
           => /\ pair.cl[1].hash.elts = pair.cl[2].hash.elts
              /\ pair.cl[1].ret = pair.cl[2].ret

-----------------------------------------------------------------------------
(* Further properties of the Server (SrvSpec) *)

\* C13 -- (the claim) cross-DC registration is best-effort: an error of
\* RegisterCrossDCService after a successful RegisterService does not make
\* Server.Init fail; Init goes on to SetGroupAndDisable, the metrics processor
\* and the signal handler.
C13_CrossDCBestEffort ==
    \A p \in SrvIds :
        (<<p, "reg">> \in csKeys /\ Logged(p, "register"))
            => ~(srv[p].pc = "failed" /\ srv[p].err = ErrCrossDC)

\* the run was started through Test: no processors, disable = true
StartedByTest(p) == srv[p].disable /\ srv[p].procs = NoProcs

\* C16 -- (the claim) Test mode does not register the instance: in a run
\* started through Test, RegisterService is never called and no reg, backdoor
\* or metrics registration of that process is written to the store.
C16_TestRegistersNothing ==
    \A p \in SrvIds :
        StartedByTest(p) =>
            /\ ~Logged(p, "register")
            /\ KeysOf(p) \cap {<<p, "reg">>, <<p, "backdoor">>, <<p, "metrics">>} = {}

-----------------------------------------------------------------------------
(* Properties of the watch loop under fair scheduling (WatchFairSpec)      *)

\* startWatch task t ended on a GET or watcher.Next error: it closed its channel
FailedTask(t) == taskPc[t] = "done" /\ taskCh[t] \in closedCh

\* a task started after t has issued its GET
NewGetAfter(t) == \E u \in TaskIds : u > t /\ taskPc[u] \notin {"none", "get"}

HasNilDriver(p) == \E n \in DOMAIN srv[p].procs : srv[p].procs[n] = "nodriver"

\* C19 -- (the claim) Server.Init rejects nil drivers: if a named user processor
\* has a nil driver, processor initialization fails with an error and
\* RegisterService is not called in that run.
C19_NilDriverRejected ==
    \A p \in SrvIds :
        HasNilDriver(p) =>
            /\ ~Logged(p, "register")
            /\ srv[p].pc \notin {"register", "crossdc", "setgroup", "metric", "await"}

-----------------------------------------------------------------------------
(* Further properties of the Client (Spec)                                  *)

\* C20 -- GetServAddr returns nil whenever the ring is empty: before the first
\* snapshot has been applied there is no ring, after an applied snapshot in
\* which no instance is both enabled and has non-empty reg.servs the ring has
\* no member (the empty ring replaces the previous one), and a GetServAddr that
\* finds no ring or an empty ring returns nil.
C20_EmptyRingNil ==
    /\ servHash.index = 0 => servHash.nil
    /\ (muServlist # "watch" /\ ~servHash.nil /\ ClaimMembers(servCopy.copies) = {})
          => servHash.elts = {}
    /\ (rt.pc = "ret" /\ rt.op = "GetServAddr" /\ (servHash.nil \/ servHash.elts = {}))
          => rt.ret = NilInfo

\* a later snapshot was applied whose only instance is disabled: its endpoint is
\* in the map, the ring is empty and GetServAddr returns nil
C20_Witness ==
    /\ rt.pc = "ret" /\ rt.op = "GetServAddr" /\ rt.ret = NilInfo
    /\ ~servHash.nil /\ servHash.elts = {} /\ servHash.index >= 2
    /\ \E s \in DOMAIN servCopy.copies : DOMAIN servCopy.copies[s].reg.servs # {}

-----------------------------------------------------------------------------
(* Further properties of the watch loop (WatchSpec)                          *)

\* startWatch task t is running
LiveTask(t) == taskPc[t] \notin {"none", "done"}

\* C21 -- (the claim) every path on which a startWatch task terminates closes
\* its channel first, so the supervisor never waits on a channel whose producer
\* is gone: a terminated task's channel is closed, and the supervisor's current
\* channel either has a live task or is closed (and will be replaced).
C21_TerminatedTaskClosedChannel ==
    /\ \A t \in TaskIds : taskPc[t] = "done" => taskCh[t] \in closedCh
    /\ chg # NoChan =>
          (chg \in closedCh \/ \E t \in TaskIds : taskCh[t] = chg /\ LiveTask(t))

\* C22 -- at most one startWatch task is live at any time, it is the task of
\* the supervisor's current channel, and no task sends on or closes a channel
\* that is already closed (a task's channel is closed only once it has ended).
C22_SingleLiveTask ==
    /\ \A t \in TaskIds : \A u \in TaskIds : (LiveTask(t) /\ LiveTask(u)) => t = u
    /\ \A t \in TaskIds : LiveTask(t) => (taskCh[t] = chg /\ taskCh[t] \notin closedCh)
    /\ ~chanPanic

\* after a restart: the first task has closed its channel and ended, the second
\* runs on the new channel and has handed a snapshot to the supervisor
C22_Witness ==
    /\ taskPc[1] = "done" /\ taskCh[1] \in closedCh
    /\ taskPc[2] = "watch" /\ taskCh[2] = chg /\ chg \notin closedCh

\* the Client's view: what GetServAddr and GetServAddrWithServid answer from
View == <<servHash, servCopy>>

\* a step of a failure: a Get or watch error, a nil watcher, or the supervisor's
\* receive from a closed channel
FailureStep ==
    \/ errCount' # errCount
    \/ closedCh' # closedCh
    \/ (supPc = "recv" /\ supPc' = "top")

\* C23 -- a failed GET or watch leaves ring and servCopy unchanged: no step of a
\* failure or of the supervisor's retry changes either of them, and they change
\* only inside upServlist's critical section, to the ring and the map built
\* from one received snapshot; so during an outage of any length GetServAddr
\* answers from the last applied snapshot.
C23_FailureKeepsView ==
    [][/\ FailureStep => View' = View
       /\ (nextTask' # nextTask) => View' = View
       /\ (View' # View) =>
             (/\ muServlist = "watch"
              /\ supPc \in {"sethash", "setcopy"}
              /\ \/ servHash' = [nil |-> FALSE, index |-> upLocal.index, elts |-> upLocal.shash]
                 \/ servCopy' = [index |-> upLocal.index, copies |-> upLocal.scopy])]_vars

\* an outage after an applied snapshot: the watch failed, the supervisor backed
\* off and retried, the store has moved on, and the Client still holds the
\* non-empty ring and the map of the snapshot applied before
C23_Witness ==
    /\ errCount >= 1 /\ closedCh # {} /\ nextTask >= 2 /\ backoff >= 1
    /\ servHash.elts # {}
    /\ servHash.index = servCopy.index
    /\ store.index > servHash.index
    /\ muServlist = "free"

-----------------------------------------------------------------------------
(* Properties of the v2 reassembly (ReassemblySpec)                          *)

\* the response without the child that is no slot
WithoutStray(r) == [r EXCEPT !.nodes[StrayName] = AbsentNode]

\* C24 -- in v2 reassembly a child directory whose name is not a non-negative
\* integer is skipped and the remaining children are applied as if it were not
\* there; a child that is not a directory makes the whole snapshot be
\* discarded: parseResponse returns with ring, servCopy and lock as they were.
C24_StrayChildren ==
    [][(supPc = "parse" /\ supPc' # "parse" /\ supR.nodes[StrayName].present) =>
          IF supR.nodes[StrayName].dir
          THEN /\ supPc' = "uplock"
               /\ upLocal'.index = supR.index
               /\ upLocal'.scopy = parseResponseV2(WithoutStray(supR)).scopy
               /\ upLocal'.shash = RingLabels(parseResponseV2(WithoutStray(supR)).scopy)
          ELSE /\ supPc' = "top"
               /\ View' = View
               /\ upLocal' = upLocal
               /\ muServlist' = muServlist]_vars

\* a snapshot with a plain key was received and discarded: the store holds the
\* key and an instance registered since, the task has handed over the snapshot
\* of the store's revision, and the Client still has the ring and the map of
\* an earlier revision, without that instance
C24_Witness ==
    /\ store.nodes[StrayName].present /\ ~store.nodes[StrayName].dir
    /\ \E t \in TaskIds : taskPc[t] = "watch" /\ taskR[t].index = store.index
    /\ supPc \in {"top", "recv"}
    /\ ~servHash.nil /\ servHash.elts # {} /\ servHash.index < store.index
    /\ \E s \in SlotIds :
          /\ store.nodes[SlotName(s)].present
          /\ store.nodes[SlotName(s)].reg.kind = "ok"
          /\ s \notin DOMAIN servCopy.copies

=============================================================================
